---- MODULE Spec2Model ----
(***************************************************************************)
(* Model of render/wgpu/src/frame.rs: the per-frame command handler        *)
(* (Frame) of the wgpu render backend.  The state is the Frame's mask      *)
(* state machine (mask_state, num_masks), its blend-mode stack             *)
(* (blend_modes) and the calls recorded on the main render pass            *)
(* (render_pass) and on the pass swap_srgb opens (copy_pass).              *)
(*                                                                         *)
(* debug_assert! and arithmetic overflow checks exist only in builds with  *)
(* debug assertions; the build is chosen in Init (debug_assertions) and    *)
(* never changes.  A panic ends the use of the Frame (panicked).           *)
(***************************************************************************)
EXTENDS Integers, Sequences, FiniteSets, TLC

\* ------------------------------------------------------------------ bounds

\* Deepest mask nesting explored (PushMask is not issued beyond it).
MaxMasks == 2

\* Most PushBlend commands open at once (the stack holds at most one more).
MaxBlends == 2

\* Commands are issued while at most this many calls are recorded.
MaxRecorded == 3

\* ------------------------------------------------------- u32 (num_masks)

\* num_masks is a u32: a pair <<high, low>> of 16-bit halves, so that the
\* wrapped values of a build without overflow checks are representable.
HalfWord == 65536

u32(n) == <<n \div HalfWord, n % HalfWord>>

U32Max == <<HalfWord - 1, HalfWord - 1>>

wrapping_inc(x) ==
    IF x[2] = HalfWord - 1 THEN <<(x[1] + 1) % HalfWord, 0>>
    ELSE <<x[1], x[2] + 1>>

wrapping_dec(x) ==
    IF x[2] = 0 THEN <<(x[1] + HalfWord - 1) % HalfWord, HalfWord - 1>>
    ELSE <<x[1], x[2] - 1>>

\* ------------------------------------------------------------ input data

MaskStates == {"NoMask", "DrawMaskStencil", "DrawMaskedContent", "ClearMaskStencil"}

BlendModes == {"Normal", "Multiply"}

\* The bitmap registry of the frame: handle 1 is registered, handle 2 is not.
BitmapHandles == {1, 2}

bitmap_registry ==
    [h \in {1} |-> [width |-> 2, height |-> 3, bind_group |-> <<"texture", h>>]]

Draw(id, kind, rep, smooth, n, m) ==
    [draw_type |-> [kind |-> kind, is_repeating |-> rep, is_smoothed |-> smooth,
                    bind_group |-> <<"fill", id>>],
     vertex_buffer |-> <<"vertex_buffer", id>>,
     index_buffer |-> <<"index_buffer", id>>,
     num_indices |-> n, num_mask_indices |-> m]

\* The mesh table, indexed by shape.0 (from 0): no sub-draw; one fill; one
\* stroke (no mask indices); a gradient fill, a bitmap fill and a stroke;
\* sub-draws with no indices at all; one gradient fill; one bitmap fill.
meshes ==
    << <<>>,
       <<Draw(11, "Color", FALSE, FALSE, 3, 3)>>,
       <<Draw(21, "Color", FALSE, FALSE, 6, 0)>>,
       <<Draw(31, "Gradient", FALSE, FALSE, 3, 3),
         Draw(32, "Bitmap", TRUE, FALSE, 9, 9),
         Draw(33, "Color", FALSE, FALSE, 6, 0)>>,
       <<Draw(41, "Color", FALSE, FALSE, 0, 0),
         Draw(42, "Bitmap", FALSE, TRUE, 0, 0)>>,
       <<Draw(51, "Gradient", FALSE, FALSE, 12, 12)>>,
       <<Draw(61, "Bitmap", FALSE, TRUE, 6, 6)>> >>

\* Shape handles a command may carry; the last one is past the mesh table.
ShapeHandles == 0..Len(meshes)

Matrix(a, b, c, d, tx, ty) == [a |-> a, b |-> b, c |-> c, d |-> d, tx |-> tx, ty |-> ty]

Matrices == {Matrix(2, 0, 0, 2, 40, 20)}

Transforms == {[matrix |-> m, color_transform |-> "ct"] : m \in Matrices}

Color(r, g, b, a) == [r |-> r, g |-> g, b |-> b, a |-> a]

Colors == {Color(255, 0, 0, 128), Color(0, 51, 255, 255)}

\* The <<width, height>> a swap_srgb call may carry.
Sizes == {<<4, 1>>, <<1, 4>>}

\* ------------------------------------------------- calls on a render pass

SetPipeline(table, blend, ms) ==
    [op |-> "set_pipeline", table |-> table, blend |-> blend, mask |-> ms]

SetBindGroup(slot, group) == [op |-> "set_bind_group", slot |-> slot, group |-> group]

WriteUniforms(slot, world, adjust) ==
    [op |-> "write_uniforms", slot |-> slot, world_matrix |-> world,
     color_adjustments |-> adjust]

SetVertexBuffer(slot, buffer) ==
    [op |-> "set_vertex_buffer", slot |-> slot, buffer |-> buffer]

SetIndexBuffer(buffer) == [op |-> "set_index_buffer", buffer |-> buffer]

SetStencilReference(ref) == [op |-> "set_stencil_reference", ref |-> ref]

DrawIndexed(count) == [op |-> "draw_indexed", first |-> 0, count |-> count]

\* ------------------------------------------------------------------ state

VARIABLES
    mask_state,        \* Frame.mask_state
    num_masks,         \* Frame.num_masks, a u32
    blend_modes,       \* Frame.blend_modes
    render_pass,       \* the calls recorded on Frame.render_pass
    copy_pass,         \* the calls of the pass the latest swap_srgb opened
    panicked,          \* a handler panicked: the Frame is used no more
    debug_assertions,  \* the build has debug assertions and overflow checks
    \* history of the command stream
    last_cmd,          \* the command handled last (and what it followed)
    cmd_start,         \* Len(render_pass) when that command began
    asserts_ok,        \* every debug_assert! condition met so far was true
    open_masks,        \* PushMask commands not yet matched by a PopMask
    mask_unmatched,    \* a PopMask was issued with no PushMask open
    last_mask_cmd,     \* the mask command handled last
    open_blends,       \* the modes of the PushBlend commands still open
    blend_unmatched    \* a PopBlend was issued with no PushBlend open

frame == <<mask_state, num_masks, blend_modes>>

passes == <<render_pass, copy_pass>>

mask_history == <<open_masks, mask_unmatched, last_mask_cmd>>

blend_history == <<open_blends, blend_unmatched>>

vars == <<mask_state, num_masks, blend_modes, render_pass, copy_pass, panicked,
          debug_assertions, last_cmd, cmd_start, asserts_ok,
          open_masks, mask_unmatched, last_mask_cmd, open_blends, blend_unmatched>>

\* Frame::new
Init ==
    /\ mask_state = "NoMask"
    /\ num_masks = u32(0)
    /\ blend_modes = <<"Normal">>
    /\ render_pass = <<>>
    /\ copy_pass = <<>>
    /\ panicked = FALSE
    /\ debug_assertions \in BOOLEAN
    /\ last_cmd = [op |-> "new"]
    /\ cmd_start = 0
    /\ asserts_ok = TRUE
    /\ open_masks = 0
    /\ mask_unmatched = FALSE
    /\ last_mask_cmd = "none"
    /\ open_blends = <<>>
    /\ blend_unmatched = FALSE

\* The Frame can take a command.
Usable == ~panicked

\* The command cmd is being handled.
Handling(cmd) ==
    /\ last_cmd' = cmd
    /\ cmd_start' = Len(render_pass)
    /\ UNCHANGED debug_assertions

\* ---------------------------------------------------------- mask commands

\* The debug_assert! of each mask handler.
push_mask_assert(ms, n) == ms = "NoMask" \/ ms = "DrawMaskedContent"

\* A slip: the assertion of activate_mask without its test of the phase.
activate_mask_assert_any_phase(ms, n) == n # u32(0)

activate_mask_assert(ms, n) == n # u32(0) /\ ms = "DrawMaskStencil"

deactivate_mask_assert(ms, n) == n # u32(0) /\ ms = "DrawMaskedContent"

\* A slip: pop_mask left without its assertion.
pop_mask_assert_none(ms, n) == TRUE

pop_mask_assert(ms, n) == n # u32(0) /\ ms = "ClearMaskStencil"

\* A slip: the depth compared as if it had not been decremented yet.
pop_mask_state_late(n) == IF n = u32(1) THEN "NoMask" ELSE "DrawMaskedContent"

\* A slip: the enclosing level resumed even when there is none.
pop_mask_state_always_content(n) == "DrawMaskedContent"

\* The phase pop_mask resumes, from the decremented depth.
pop_mask_state(n) == IF n = u32(0) THEN "NoMask" ELSE "DrawMaskedContent"

\* Explored up to depth MaxMasks.  With overflow checks the increment panics
\* at the largest u32; without them it wraps to 0.
push_mask ==
    /\ Usable
    /\ num_masks # u32(MaxMasks)
    /\ Handling([op |-> "push_mask"])
    /\ open_masks' = open_masks + 1
    /\ last_mask_cmd' = "push"
    /\ asserts_ok' = (asserts_ok /\ push_mask_assert(mask_state, num_masks))
    /\ IF debug_assertions
          /\ (~push_mask_assert(mask_state, num_masks) \/ num_masks = U32Max)
       THEN panicked' = TRUE /\ UNCHANGED <<mask_state, num_masks>>
       ELSE /\ num_masks' = wrapping_inc(num_masks)
            /\ mask_state' = "DrawMaskStencil"
            /\ panicked' = FALSE
    /\ UNCHANGED <<blend_modes, passes, mask_unmatched, blend_history>>

\* A slip: the stencil reference of the finished mask set at activation.
activate_mask_sets_reference ==
    /\ Usable
    /\ Handling([op |-> "activate_mask"])
    /\ last_mask_cmd' = "activate"
    /\ asserts_ok' = (asserts_ok /\ activate_mask_assert(mask_state, num_masks))
    /\ IF debug_assertions /\ ~activate_mask_assert(mask_state, num_masks)
       THEN panicked' = TRUE /\ UNCHANGED <<mask_state, render_pass>>
       ELSE /\ mask_state' = "DrawMaskedContent" /\ panicked' = FALSE
            /\ render_pass' = render_pass \o <<SetStencilReference(num_masks)>>
    /\ UNCHANGED <<num_masks, blend_modes, copy_pass, open_masks, mask_unmatched,
                   blend_history>>

activate_mask ==
    /\ Usable
    /\ Handling([op |-> "activate_mask"])
    /\ last_mask_cmd' = "activate"
    /\ asserts_ok' = (asserts_ok /\ activate_mask_assert(mask_state, num_masks))
    /\ IF debug_assertions /\ ~activate_mask_assert(mask_state, num_masks)
       THEN panicked' = TRUE /\ UNCHANGED mask_state
       ELSE mask_state' = "DrawMaskedContent" /\ panicked' = FALSE
    /\ UNCHANGED <<num_masks, blend_modes, passes, open_masks, mask_unmatched,
                   blend_history>>

deactivate_mask ==
    /\ Usable
    /\ Handling([op |-> "deactivate_mask"])
    /\ last_mask_cmd' = "deactivate"
    /\ asserts_ok' = (asserts_ok /\ deactivate_mask_assert(mask_state, num_masks))
    /\ IF debug_assertions /\ ~deactivate_mask_assert(mask_state, num_masks)
       THEN panicked' = TRUE /\ UNCHANGED mask_state
       ELSE mask_state' = "ClearMaskStencil" /\ panicked' = FALSE
    /\ UNCHANGED <<num_masks, blend_modes, passes, open_masks, mask_unmatched,
                   blend_history>>

\* Without debug assertions a PopMask at depth 0 wraps the depth to the
\* largest u32; the depths below that one are not explored.
pop_mask ==
    /\ Usable
    /\ num_masks # U32Max
    /\ Handling([op |-> "pop_mask"])
    /\ open_masks' = IF open_masks > 0 THEN open_masks - 1 ELSE 0
    /\ mask_unmatched' = (mask_unmatched \/ open_masks = 0)
    /\ last_mask_cmd' = "pop"
    /\ asserts_ok' = (asserts_ok /\ pop_mask_assert(mask_state, num_masks))
    /\ IF debug_assertions /\ ~pop_mask_assert(mask_state, num_masks)
       THEN panicked' = TRUE /\ UNCHANGED <<mask_state, num_masks>>
       ELSE /\ num_masks' = wrapping_dec(num_masks)
            /\ mask_state' = pop_mask_state(wrapping_dec(num_masks))
            /\ panicked' = FALSE
    /\ UNCHANGED <<blend_modes, passes, blend_history>>

\* --------------------------------------------------------- blend commands

\* Explored up to MaxBlends entries above the default one.
push_blend_mode(blend) ==
    /\ Usable
    /\ Len(blend_modes) <= MaxBlends
    /\ Handling([op |-> "push_blend_mode", before |-> blend_modes])
    /\ blend_modes' = Append(blend_modes, blend)
    /\ open_blends' = Append(open_blends, blend)
    /\ UNCHANGED <<mask_state, num_masks, passes, panicked, asserts_ok,
                   mask_history, blend_unmatched>>

\* A slip: the oldest entry removed instead of the newest.
vec_pop_front(v) == IF v = <<>> THEN v ELSE Tail(v)

\* A slip: the last entry of the stack protected from the pop.
vec_pop_keep_last(v) == IF Len(v) <= 1 THEN v ELSE SubSeq(v, 1, Len(v) - 1)

\* Vec::pop: removes the last element, and does nothing to an empty vector.
vec_pop(v) == IF v = <<>> THEN v ELSE SubSeq(v, 1, Len(v) - 1)

pop_blend_mode ==
    /\ Usable
    /\ Handling([op |-> "pop_blend_mode",
                 before_push |-> IF last_cmd.op = "push_blend_mode"
                                 THEN <<last_cmd.before>> ELSE <<>>])
    /\ blend_modes' = vec_pop(blend_modes)
    /\ open_blends' = IF open_blends = <<>> THEN <<>>
                      ELSE SubSeq(open_blends, 1, Len(open_blends) - 1)
    /\ blend_unmatched' = (blend_unmatched \/ open_blends = <<>>)
    /\ UNCHANGED <<mask_state, num_masks, passes, panicked, asserts_ok,
                   mask_history>>

\* ---------------------------------------------------------- draw commands

\* Frame::blend_mode is Last(blend_modes); its unwrap panics on an empty stack.
blend_mode_panics == blend_modes = <<>>

\* A slip: the bottom of the stack taken for the current mode.
blend_mode_first == blend_modes[1]

blend_mode == blend_modes[Len(blend_modes)]

\* Twips::to_pixels: a twip is a twentieth of a pixel (kept as a fraction).
to_pixels(twips) == [num |-> twips, den |-> 20]

world_matrix(m) ==
    << <<m.a, m.b, 0, 0>>,
       <<m.c, m.d, 0, 0>>,
       <<0, 0, 1, 0>>,
       <<to_pixels(m.tx), to_pixels(m.ty), 0, 1>> >>

\* matrix * Matrix { a: width, d: height, ..Default::default() }: the unit
\* quad is scaled to the texture's size before the command's matrix applies.
scale_to_texture(m, width, height) ==
    Matrix(m.a * width, m.b * width, m.c * height, m.d * height, m.tx, m.ty)

\* ColorAdjustments::from(transform.color_transform), left uninterpreted.
ColorAdjustmentsFrom(ct) == <<"ColorAdjustments::from", ct>>

\* A slip: the channels scaled by the number of byte values, not the largest.
rect_color_adjustments_over_256(color) ==
    [mult_color |-> <<[num |-> color.r, den |-> 256], [num |-> color.g, den |-> 256],
                      [num |-> color.b, den |-> 256], [num |-> color.a, den |-> 256]>>,
     add_color |-> <<0, 0, 0, 0>>]

\* The mult_color and add_color of draw_rect: each channel over 255, as a fraction.
rect_color_adjustments(color) ==
    [mult_color |-> <<[num |-> color.r, den |-> 255], [num |-> color.g, den |-> 255],
                      [num |-> color.b, den |-> 255], [num |-> color.a, den |-> 255]>>,
     add_color |-> <<0, 0, 0, 0>>]

Sampler(is_repeating, is_smoothed) == <<"sampler", is_repeating, is_smoothed>>

\* The result of a part of a handler: the calls it recorded, whether it
\* panicked, and whether the debug_assert! conditions it met were true.
Result(calls, panic, ok) == [calls |-> calls, panic |-> panic, ok |-> ok]

\* A slip: masked content referenced one level below its mask.
set_stencil_reference_one_below(ms, n, dbg) ==
    CASE ms = "NoMask" -> Result(<<>>, FALSE, TRUE)
      [] OTHER ->
            IF n # u32(0)
            THEN Result(<<SetStencilReference(wrapping_dec(n))>>, FALSE, TRUE)
            ELSE IF dbg THEN Result(<<>>, TRUE, FALSE)
            ELSE Result(<<SetStencilReference(wrapping_dec(n))>>, FALSE, FALSE)

\* A slip: the stencil being built referenced like the finished one.
set_stencil_reference_same_depth(ms, n, dbg) ==
    CASE ms = "NoMask" -> Result(<<>>, FALSE, TRUE)
      [] OTHER ->
            IF n # u32(0) THEN Result(<<SetStencilReference(n)>>, FALSE, TRUE)
            ELSE IF dbg THEN Result(<<>>, TRUE, FALSE)
            ELSE Result(<<SetStencilReference(n)>>, FALSE, FALSE)

\* The match on mask_state before each draw call.
set_stencil_reference(ms, n, dbg) ==
    CASE ms = "NoMask" -> Result(<<>>, FALSE, TRUE)
      [] ms = "DrawMaskStencil" ->
            IF n # u32(0)
            THEN Result(<<SetStencilReference(wrapping_dec(n))>>, FALSE, TRUE)
            ELSE IF dbg THEN Result(<<>>, TRUE, FALSE)
            ELSE Result(<<SetStencilReference(wrapping_dec(n))>>, FALSE, FALSE)
      [] OTHER ->
            IF n # u32(0) THEN Result(<<SetStencilReference(n)>>, FALSE, TRUE)
            ELSE IF dbg THEN Result(<<>>, TRUE, FALSE)
            ELSE Result(<<SetStencilReference(n)>>, FALSE, FALSE)

\* A slip: the stencil reference set after the draw call it is meant for.
stencil_then_draw_reference_late(ms, n, dbg, count) ==
    LET s == set_stencil_reference(ms, n, dbg)
    IN  Result((IF s.panic THEN <<>> ELSE <<DrawIndexed(count)>>) \o s.calls,
               s.panic, s.ok)

\* The stencil match followed by the draw call (not reached after a panic).
stencil_then_draw(ms, n, dbg, count) ==
    LET s == set_stencil_reference(ms, n, dbg)
    IN  Result(s.calls \o (IF s.panic THEN <<>> ELSE <<DrawIndexed(count)>>),
               s.panic, s.ok)

\* A slip: the full index count used in every phase, strokes included.
applicable_indices_always_full(draw, ms) == draw.num_indices

\* The index count of a sub-draw in phase ms (strokes are left out of masks).
applicable_indices(draw, ms) ==
    IF ms # "DrawMaskStencil" /\ ms # "ClearMaskStencil"
    THEN draw.num_indices
    ELSE draw.num_mask_indices

\* A slip: gradient fills drawn with the pipeline of flat colors.
bind_draw_type_gradient_as_color(dt, blend, ms) ==
    CASE dt.kind = "Color" -> <<SetPipeline("color", blend, ms)>>
      [] dt.kind = "Gradient" ->
            <<SetPipeline("color", blend, ms), SetBindGroup(2, dt.bind_group)>>
      [] dt.kind = "Bitmap" ->
            <<SetPipeline("bitmap", blend, ms), SetBindGroup(2, dt.bind_group),
              SetBindGroup(3, Sampler(dt.is_repeating, dt.is_smoothed))>>

\* The match on draw.draw_type.
bind_draw_type(dt, blend, ms) ==
    CASE dt.kind = "Color" -> <<SetPipeline("color", blend, ms)>>
      [] dt.kind = "Gradient" ->
            <<SetPipeline("gradient", blend, ms), SetBindGroup(2, dt.bind_group)>>
      [] dt.kind = "Bitmap" ->
            <<SetPipeline("bitmap", blend, ms), SetBindGroup(2, dt.bind_group),
              SetBindGroup(3, Sampler(dt.is_repeating, dt.is_smoothed))>>

\* A slip: the pipeline bound before the index count is looked at.
sub_draw_binds_first(draw, blend, ms, n, dbg) ==
    IF applicable_indices(draw, ms) = 0
    THEN Result(bind_draw_type(draw.draw_type, blend, ms), FALSE, TRUE)
    ELSE LET d == stencil_then_draw(ms, n, dbg, applicable_indices(draw, ms))
         IN  Result(bind_draw_type(draw.draw_type, blend, ms)
                        \o <<SetVertexBuffer(0, draw.vertex_buffer),
                             SetIndexBuffer(draw.index_buffer)>>
                        \o d.calls,
                    d.panic, d.ok)

\* One iteration of the loop over mesh.draws.
sub_draw(draw, blend, ms, n, dbg) ==
    IF applicable_indices(draw, ms) = 0 THEN Result(<<>>, FALSE, TRUE)
    ELSE LET d == stencil_then_draw(ms, n, dbg, applicable_indices(draw, ms))
         IN  Result(bind_draw_type(draw.draw_type, blend, ms)
                        \o <<SetVertexBuffer(0, draw.vertex_buffer),
                             SetIndexBuffer(draw.index_buffer)>>
                        \o d.calls,
                    d.panic, d.ok)

\* A slip: the loop left after its first iteration.
mesh_draws_first_only(draws, i, blend, ms, n, dbg) ==
    IF i > Len(draws) THEN Result(<<>>, FALSE, TRUE)
    ELSE sub_draw(draws[i], blend, ms, n, dbg)

\* The loop over mesh.draws from sub-draw i on; a panic ends it.
RECURSIVE mesh_draws(_, _, _, _, _, _)
mesh_draws(draws, i, blend, ms, n, dbg) ==
    IF i > Len(draws) THEN Result(<<>>, FALSE, TRUE)
    ELSE LET d == sub_draw(draws[i], blend, ms, n, dbg)
         IN  IF d.panic THEN d
             ELSE LET rest == mesh_draws(draws, i + 1, blend, ms, n, dbg)
                  IN  Result(d.calls \o rest.calls, rest.panic, d.ok /\ rest.ok)

\* What a draw handler leaves behind: r is its Result.
Recorded(r) ==
    /\ render_pass' = render_pass \o r.calls
    /\ panicked' = r.panic
    /\ asserts_ok' = (asserts_ok /\ r.ok)

bitmap_calls(entry, transform, smoothing) ==
    LET d == stencil_then_draw(mask_state, num_masks, debug_assertions, 6)
    IN  Result(
          <<SetPipeline("bitmap", blend_mode, mask_state),
            SetBindGroup(0, <<"globals">>),
            WriteUniforms(1,
                world_matrix(scale_to_texture(transform.matrix, entry.width,
                                              entry.height)),
                ColorAdjustmentsFrom(transform.color_transform)),
            SetBindGroup(2, entry.bind_group),
            SetBindGroup(3, Sampler(FALSE, smoothing)),
            SetVertexBuffer(0, <<"quad_vbo">>),
            SetIndexBuffer(<<"quad_ibo">>)>> \o d.calls,
          d.panic, d.ok)

\* A slip: bitmaps left out while a mask stencil is being cleared.
bitmap_result_not_while_clearing(bitmap, transform, smoothing) ==
    IF bitmap \notin DOMAIN bitmap_registry \/ mask_state = "ClearMaskStencil"
    THEN Result(<<>>, FALSE, TRUE)
    ELSE IF blend_mode_panics THEN Result(<<>>, TRUE, TRUE)
    ELSE bitmap_calls(bitmap_registry[bitmap], transform, smoothing)

\* A slip: the current blend mode asked for before the registry lookup, as
\* the other draw handlers do.
bitmap_result_eager(bitmap, transform, smoothing) ==
    IF blend_mode_panics THEN Result(<<>>, TRUE, TRUE)
    ELSE IF bitmap \notin DOMAIN bitmap_registry THEN Result(<<>>, FALSE, TRUE)
    ELSE bitmap_calls(bitmap_registry[bitmap], transform, smoothing)

\* The body of render_bitmap: nothing happens for a handle the registry lacks.
bitmap_result(bitmap, transform, smoothing) ==
    IF bitmap \notin DOMAIN bitmap_registry THEN Result(<<>>, FALSE, TRUE)
    ELSE IF blend_mode_panics THEN Result(<<>>, TRUE, TRUE)
    ELSE bitmap_calls(bitmap_registry[bitmap], transform, smoothing)

render_bitmap(bitmap, transform, smoothing) ==
    /\ Usable
    /\ Handling([op |-> "render_bitmap", bitmap |-> bitmap])
    /\ Recorded(bitmap_result(bitmap, transform, smoothing))
    /\ UNCHANGED <<frame, copy_pass, mask_history, blend_history>>

\* A slip: the uniforms of a shape written only when a sub-draw is drawn.
shape_calls_write_when_drawn(mesh, transform) ==
    LET d == mesh_draws(mesh, 1, blend_mode, mask_state, num_masks, debug_assertions)
    IN  IF d.calls = <<>> THEN d
        ELSE Result(
               <<SetBindGroup(0, <<"globals">>),
                 WriteUniforms(1, world_matrix(transform.matrix),
                               ColorAdjustmentsFrom(transform.color_transform))>>
                  \o d.calls,
               d.panic, d.ok)

shape_calls(mesh, transform) ==
    LET d == mesh_draws(mesh, 1, blend_mode, mask_state, num_masks, debug_assertions)
    IN  Result(
          <<SetBindGroup(0, <<"globals">>),
            WriteUniforms(1, world_matrix(transform.matrix),
                          ColorAdjustmentsFrom(transform.color_transform))>>
             \o d.calls,
          d.panic, d.ok)

render_shape(shape, transform) ==
    /\ Usable
    /\ Handling([op |-> "render_shape", shape |-> shape])
    /\ IF blend_mode_panics \/ shape >= Len(meshes)
       THEN Recorded(Result(<<>>, TRUE, TRUE))
       ELSE Recorded(shape_calls(meshes[shape + 1], transform))
    /\ UNCHANGED <<frame, copy_pass, mask_history, blend_history>>

rect_calls(color, matrix) ==
    LET d == stencil_then_draw(mask_state, num_masks, debug_assertions, 6)
    IN  Result(
          <<SetPipeline("color", blend_mode, mask_state),
            SetBindGroup(0, <<"globals">>),
            WriteUniforms(1, world_matrix(matrix), rect_color_adjustments(color)),
            SetVertexBuffer(0, <<"quad_vbo">>),
            SetIndexBuffer(<<"quad_ibo">>)>> \o d.calls,
          d.panic, d.ok)

draw_rect(color, matrix) ==
    /\ Usable
    /\ Handling([op |-> "draw_rect", color |-> color])
    /\ IF blend_mode_panics THEN Recorded(Result(<<>>, TRUE, TRUE))
       ELSE Recorded(rect_calls(color, matrix))
    /\ UNCHANGED <<frame, copy_pass, mask_history, blend_history>>

\* ---------------------------------------------------------------- swap_srgb

\* A slip: one triangle of the quad drawn.
srgb_calls_one_triangle(copy_srgb_bind_group, width, height) ==
    <<[op |-> "set_pipeline", table |-> "copy_srgb", blend |-> "none", mask |-> "none"],
      SetBindGroup(0, <<"globals">>),
      WriteUniforms(1,
          << <<width, 0, 0, 0>>, <<0, height, 0, 0>>, <<0, 0, 1, 0>>, <<0, 0, 0, 1>> >>,
          [mult_color |-> <<1, 1, 1, 1>>, add_color |-> <<0, 0, 0, 0>>]),
      SetBindGroup(2, copy_srgb_bind_group),
      SetBindGroup(3, Sampler(FALSE, FALSE)),
      SetVertexBuffer(0, <<"quad_vbo">>),
      SetIndexBuffer(<<"quad_ibo">>),
      DrawIndexed(3)>>

srgb_calls(copy_srgb_bind_group, width, height) ==
    <<[op |-> "set_pipeline", table |-> "copy_srgb", blend |-> "none", mask |-> "none"],
      SetBindGroup(0, <<"globals">>),
      WriteUniforms(1,
          << <<width, 0, 0, 0>>, <<0, height, 0, 0>>, <<0, 0, 1, 0>>, <<0, 0, 0, 1>> >>,
          [mult_color |-> <<1, 1, 1, 1>>, add_color |-> <<0, 0, 0, 0>>]),
      SetBindGroup(2, copy_srgb_bind_group),
      SetBindGroup(3, Sampler(FALSE, FALSE)),
      SetVertexBuffer(0, <<"quad_vbo">>),
      SetIndexBuffer(<<"quad_ibo">>),
      DrawIndexed(6)>>

swap_srgb(copy_srgb_bind_group, width, height) ==
    /\ Usable
    /\ Handling([op |-> "swap_srgb"])
    /\ copy_pass' = srgb_calls(copy_srgb_bind_group, width, height)
    /\ UNCHANGED <<frame, render_pass, panicked, asserts_ok, mask_history,
                   blend_history>>

\* ----------------------------------------------------------- specification

\* The recording is short enough for another command to be explored.
Room == Len(render_pass) <= MaxRecorded

Next ==
    \/ Room /\ push_mask
    \/ Room /\ activate_mask
    \/ Room /\ deactivate_mask
    \/ Room /\ pop_mask
    \/ \E blend \in BlendModes : Room /\ push_blend_mode(blend)
    \/ Room /\ pop_blend_mode
    \/ \E bitmap \in BitmapHandles, transform \in Transforms, smoothing \in BOOLEAN :
          Room /\ render_bitmap(bitmap, transform, smoothing)
    \/ \E shape \in ShapeHandles, transform \in Transforms :
          Room /\ render_shape(shape, transform)
    \/ \E color \in Colors, matrix \in Matrices : Room /\ draw_rect(color, matrix)
    \/ \E size \in Sizes : Room /\ swap_srgb(<<"copy_srgb">>, size[1], size[2])

Spec == Init /\ [][Next]_vars

\* The shapes of one sub-draw whose two index counts are both non-zero.
ScenarioShapes ==
    {s \in 0..(Len(meshes) - 1) :
        /\ Len(meshes[s + 1]) = 1
        /\ meshes[s + 1][1].num_indices # 0
        /\ meshes[s + 1][1].num_mask_indices # 0}

\* The command sequence PushMask, RenderShape(maskShape), ActivateMask,
\* RenderShape(contentShape), DeactivateMask, RenderBitmap(b), PopMask on a
\* fresh Frame, b registered; the command handled last and the phase tell
\* how far the sequence has come.
ScenarioNext ==
    \/ last_cmd.op = "new" /\ push_mask
    \/ \E shape \in ScenarioShapes, transform \in Transforms :
          last_cmd.op = "push_mask" /\ render_shape(shape, transform)
    \/ /\ last_cmd.op = "render_shape"
       /\ mask_state = "DrawMaskStencil"
       /\ activate_mask
    \/ \E shape \in ScenarioShapes, transform \in Transforms :
          last_cmd.op = "activate_mask" /\ render_shape(shape, transform)
    \/ /\ last_cmd.op = "render_shape"
       /\ mask_state = "DrawMaskedContent"
       /\ deactivate_mask
    \/ \E bitmap \in DOMAIN bitmap_registry, transform \in Transforms,
          smoothing \in BOOLEAN :
          last_cmd.op = "deactivate_mask"
             /\ render_bitmap(bitmap, transform, smoothing)
    \/ last_cmd.op = "render_bitmap" /\ pop_mask

Scenario == Init /\ [][ScenarioNext]_vars

\* ------------------------------------------------------------ properties

\* The value of a u32, for the depths that fit TLC's integers.
U32Val(x) == x[1] * HalfWord + x[2]

MaskOps == {"push_mask", "activate_mask", "deactivate_mask", "pop_mask"}

DrawOps == {"render_bitmap", "render_shape", "draw_rect"}

\* The calls the command handled last recorded on the main render pass.
LastCalls == SubSeq(render_pass, cmd_start + 1, Len(render_pass))

\* C1: as long as every assertion the handlers met was true, the phase is
\* NoMask exactly when the mask depth is 0, and any other phase has a depth
\* above 0.
C1_PhaseDepthPaired ==
    asserts_ok =>
        /\ mask_state = "NoMask" <=> num_masks = u32(0)
        /\ mask_state # "NoMask" => U32Val(num_masks) > 0

\* C1 witness: a nested mask was popped and the enclosing level resumed.
C1_Witness ==
    /\ asserts_ok /\ ~panicked
    /\ last_cmd.op = "pop_mask"
    /\ mask_state = "DrawMaskedContent"
    /\ num_masks = u32(1)

\* C2: a mask command whose assertion passes (as all before it did) follows
\* the transition table: PushMask from NoMask or DrawMaskedContent to
\* DrawMaskStencil with depth + 1; ActivateMask from DrawMaskStencil to
\* DrawMaskedContent, depth unchanged; DeactivateMask from DrawMaskedContent
\* to ClearMaskStencil, depth unchanged; PopMask from ClearMaskStencil with
\* depth - 1, to NoMask when the new depth is 0 and to DrawMaskedContent
\* otherwise.
C2_Transition ==
    /\ last_cmd'.op = "push_mask" =>
          /\ mask_state \in {"NoMask", "DrawMaskedContent"}
          /\ mask_state' = "DrawMaskStencil"
          /\ U32Val(num_masks') = U32Val(num_masks) + 1
    /\ last_cmd'.op = "activate_mask" =>
          /\ mask_state = "DrawMaskStencil"
          /\ mask_state' = "DrawMaskedContent"
          /\ num_masks' = num_masks
    /\ last_cmd'.op = "deactivate_mask" =>
          /\ mask_state = "DrawMaskedContent"
          /\ mask_state' = "ClearMaskStencil"
          /\ num_masks' = num_masks
    /\ last_cmd'.op = "pop_mask" =>
          /\ mask_state = "ClearMaskStencil"
          /\ U32Val(num_masks') = U32Val(num_masks) - 1
          /\ mask_state' = IF U32Val(num_masks') = 0 THEN "NoMask"
                           ELSE "DrawMaskedContent"

C2_TransitionTable == [][(asserts_ok' /\ ~panicked') => C2_Transition]_vars

\* C2 witness: every row of the table was taken, the last being a PopMask
\* that left the outermost mask.
C2_Witness ==
    /\ asserts_ok /\ ~panicked
    /\ last_cmd.op = "pop_mask"
    /\ mask_state = "NoMask"
    /\ num_masks = u32(0)

\* C3: after a command sequence whose PushMask and PopMask commands are
\* balanced (each PopMask matched to an earlier PushMask, none left open, the
\* sequence ending with its last PopMask and whatever draw or blend commands
\* follow it), the mask depth is 0 and the phase is NoMask.
C3_BalancedReturnsToNoMask ==
    (/\ ~panicked
     /\ ~mask_unmatched
     /\ open_masks = 0
     /\ last_mask_cmd \in {"none", "pop"})
        => (num_masks = u32(0) /\ mask_state = "NoMask")

\* C3 witness: a balanced sequence with a draw command in it has ended.
C3_Witness ==
    /\ ~panicked /\ ~mask_unmatched
    /\ open_masks = 0
    /\ last_mask_cmd = "pop"
    /\ render_pass # <<>>
    /\ mask_state = "NoMask"

\* The calls a step adds to the main render pass.
NewCalls == SubSeq(render_pass', Len(render_pass) + 1, Len(render_pass'))

\* C4: every draw call a draw command records is preceded, immediately, by
\* the stencil reference of the phase: depth - 1 in DrawMaskStencil (the u32
\* whose successor is the depth) and depth in DrawMaskedContent and
\* ClearMaskStencil; in NoMask the command sets no stencil reference.
C4_Step ==
    /\ mask_state = "NoMask" =>
          \A i \in 1..Len(NewCalls) : NewCalls[i].op # "set_stencil_reference"
    /\ \A i \in 1..Len(NewCalls) :
          (NewCalls[i].op = "draw_indexed" /\ mask_state # "NoMask") =>
             /\ i > 1
             /\ NewCalls[i - 1].op = "set_stencil_reference"
             /\ IF mask_state = "DrawMaskStencil"
                THEN /\ wrapping_inc(NewCalls[i - 1].ref) = num_masks
                     /\ num_masks # u32(0) =>
                           U32Val(NewCalls[i - 1].ref) = U32Val(num_masks) - 1
                ELSE NewCalls[i - 1].ref = num_masks

C4_StencilReference == [][C4_Step]_vars

\* C4 witness: a shape was drawn into the stencil of a nested mask, with
\* reference 1 at depth 2.
C4_Witness ==
    /\ last_cmd.op = "render_shape"
    /\ mask_state = "DrawMaskStencil"
    /\ num_masks = u32(2)
    /\ \E i \in 1..(Len(LastCalls) - 1) :
          /\ LastCalls[i] = SetStencilReference(u32(1))
          /\ LastCalls[i + 1].op = "draw_indexed"

\* C5: a PopBlend handled right after a PushBlend leaves the blend stack as
\* it was before the push, and with it the current blend mode.
C5_PushPopRestores ==
    (last_cmd.op = "pop_blend_mode" /\ last_cmd.before_push # <<>>) =>
        /\ blend_modes = last_cmd.before_push[1]
        /\ blend_modes # <<>> =>
              blend_modes[Len(blend_modes)]
                 = last_cmd.before_push[1][Len(last_cmd.before_push[1])]

\* C5 witness: a push onto <<Normal, Multiply>> was undone.
C5_Witness ==
    /\ last_cmd.op = "pop_blend_mode"
    /\ last_cmd.before_push = << <<"Normal", "Multiply">> >>
    /\ blend_modes = <<"Normal", "Multiply">>

\* C6: while no PopBlend was issued without an open PushBlend, the blend
\* stack is not empty, its bottom is Normal, it holds the modes of the open
\* PushBlend commands above that, and the pipelines a draw command binds are
\* those of the innermost open PushBlend's mode (Normal when none is open).
C6_BlendStackOfOpenPushes ==
    ~blend_unmatched =>
        /\ blend_modes # <<>>
        /\ blend_modes[1] = "Normal"
        /\ blend_modes = <<"Normal">> \o open_blends
        /\ last_cmd.op \in DrawOps =>
              \A i \in 1..Len(LastCalls) :
                 LastCalls[i].op = "set_pipeline" =>
                    LastCalls[i].blend
                       = (<<"Normal">> \o open_blends)[Len(open_blends) + 1]

\* C6 witness: a rectangle was drawn with Multiply, the innermost of two
\* open pushes.
C6_Witness ==
    /\ ~blend_unmatched
    /\ last_cmd.op = "draw_rect"
    /\ open_blends = <<"Normal", "Multiply">>
    /\ blend_modes = <<"Normal", "Normal", "Multiply">>
    /\ Len(LastCalls) > 0
    /\ LastCalls[1].op = "set_pipeline"
    /\ LastCalls[1].blend = "Multiply"

\* C7: a RenderBitmap whose handle the registry lacks records no call on
\* either pass, does not panic, and leaves the mask phase, the mask depth and
\* the blend stack as they were, whatever the phase and the stack.
C7_Step ==
    (last_cmd'.op = "render_bitmap"
        /\ last_cmd'.bitmap \notin DOMAIN bitmap_registry) =>
        /\ render_pass' = render_pass
        /\ copy_pass' = copy_pass
        /\ ~panicked'
        /\ mask_state' = mask_state
        /\ num_masks' = num_masks
        /\ blend_modes' = blend_modes

C7_UnregisteredBitmapSkipped == [][C7_Step]_vars

\* C7 witness: an unregistered bitmap was skipped while a mask stencil was
\* being cleared.
C7_Witness ==
    /\ last_cmd.op = "render_bitmap"
    /\ last_cmd.bitmap \notin DOMAIN bitmap_registry
    /\ mask_state = "ClearMaskStencil"
    /\ cmd_start = Len(render_pass)
    /\ ~panicked

\* A step handles ActivateMask, DeactivateMask or PopMask at mask depth 0.
DepthZeroMaskCommand ==
    /\ last_cmd'.op \in {"activate_mask", "deactivate_mask", "pop_mask"}
    /\ num_masks = u32(0)

\* C8 as claimed: ActivateMask, DeactivateMask or PopMask at mask depth 0
\* panics and changes neither the phase nor the depth.
C8_Original ==
    [][DepthZeroMaskCommand =>
          (panicked' /\ mask_state' = mask_state /\ num_masks' = num_masks)]_vars

\* C8, amended: in a build with debug assertions, ActivateMask,
\* DeactivateMask or PopMask at mask depth 0 panics and changes neither the
\* phase nor the depth, so that no phase other than NoMask is met at depth 0
\* and the depth never wraps; in a build without them the command completes
\* (ActivateMask and DeactivateMask set their phase at depth 0, PopMask wraps
\* the depth to the largest u32 and resumes DrawMaskedContent).
C8_Step ==
    DepthZeroMaskCommand =>
        IF debug_assertions
        THEN panicked' /\ mask_state' = mask_state /\ num_masks' = num_masks
        ELSE /\ ~panicked'
             /\ last_cmd'.op = "activate_mask" =>
                   mask_state' = "DrawMaskedContent" /\ num_masks' = u32(0)
             /\ last_cmd'.op = "deactivate_mask" =>
                   mask_state' = "ClearMaskStencil" /\ num_masks' = u32(0)
             /\ last_cmd'.op = "pop_mask" =>
                   mask_state' = "DrawMaskedContent" /\ num_masks' = U32Max

C8_FatalWithDebugAssertions ==
    /\ [][C8_Step]_vars
    /\ [](debug_assertions =>
             /\ mask_state # "NoMask" => num_masks # u32(0)
             /\ num_masks # U32Max)

\* C8 witness: a PopMask at depth 0 panicked in a build with debug assertions.
C8_Witness ==
    /\ debug_assertions
    /\ panicked
    /\ last_cmd.op = "pop_mask"
    /\ mask_state = "NoMask"
    /\ num_masks = u32(0)

\* C9 as claimed: the blend stack is never empty.
C9_Original == blend_modes # <<>>

\* A step handles a draw command that asks for the current blend mode.
ReadsBlendMode ==
    \/ last_cmd'.op \in {"render_shape", "draw_rect"}
    \/ /\ last_cmd'.op = "render_bitmap"
       /\ last_cmd'.bitmap \in DOMAIN bitmap_registry

\* C9, amended: a PopBlend never panics; issued when the stack holds one
\* entry it leaves the stack empty, and issued on the empty stack it changes
\* nothing.  The violation is fatal only at the next RenderShape, DrawRect
\* or RenderBitmap of a registered handle handled while the stack is empty:
\* that command panics and records no call.
C9_Step ==
    /\ last_cmd'.op = "pop_blend_mode" =>
          /\ ~panicked'
          /\ Len(blend_modes) <= 1 => blend_modes' = <<>>
    /\ (ReadsBlendMode /\ blend_modes = <<>>) =>
          /\ panicked'
          /\ render_pass' = render_pass
          /\ blend_modes' = <<>>

C9_PopPastDefaultFatalAtNextDraw == [][C9_Step]_vars

\* C9 witness: the default entry was popped and the next DrawRect panicked.
C9_Witness ==
    /\ panicked
    /\ blend_modes = <<>>
    /\ last_cmd.op = "draw_rect"
    /\ cmd_start = Len(render_pass)

\* The index count that applies to a sub-draw in the phase of the state.
ApplicableNow(draw) ==
    IF mask_state \in {"DrawMaskStencil", "ClearMaskStencil"}
    THEN draw.num_mask_indices
    ELSE draw.num_indices

CountOp(calls, op) == Cardinality({i \in 1..Len(calls) : calls[i].op = op})

\* C10: a RenderShape records its pipeline binds, material binds, buffer
\* binds, stencil references and draw calls for the sub-draws with a
\* non-zero applicable index count only: one pipeline bind, one vertex and
\* one index buffer bind and one draw call for each, none for the others,
\* and so none at all when every sub-draw has zero applicable indices.
C10_Step ==
    (last_cmd'.op = "render_shape" /\ ~panicked') =>
        LET mesh == meshes[last_cmd'.shape + 1]
            drawn == {i \in 1..Len(mesh) : ApplicableNow(mesh[i]) # 0}
        IN  /\ CountOp(NewCalls, "set_pipeline") = Cardinality(drawn)
            /\ CountOp(NewCalls, "draw_indexed") = Cardinality(drawn)
            /\ CountOp(NewCalls, "set_vertex_buffer") = Cardinality(drawn)
            /\ CountOp(NewCalls, "set_index_buffer") = Cardinality(drawn)
            /\ CountOp(NewCalls, "set_stencil_reference") <= Cardinality(drawn)
            /\ \A k \in 1..Len(NewCalls) :
                  /\ NewCalls[k].op = "set_vertex_buffer" =>
                        \E i \in drawn : NewCalls[k].buffer = mesh[i].vertex_buffer
                  /\ NewCalls[k].op = "set_index_buffer" =>
                        \E i \in drawn : NewCalls[k].buffer = mesh[i].index_buffer
                  /\ (NewCalls[k].op = "set_bind_group" /\ NewCalls[k].slot = 2) =>
                        \E i \in drawn :
                           NewCalls[k].group = mesh[i].draw_type.bind_group
                  /\ (NewCalls[k].op = "set_bind_group" /\ NewCalls[k].slot = 3) =>
                        \E i \in drawn : mesh[i].draw_type.kind = "Bitmap"

C10_ZeroIndexSubDrawSkipped == [][C10_Step]_vars

\* C10 witness: a shape made of one stroke was rendered into a mask stencil
\* and recorded no more than its slot-0 bind and its uniform write.
C10_Witness ==
    /\ last_cmd.op = "render_shape"
    /\ last_cmd.shape = 2
    /\ mask_state = "DrawMaskStencil"
    /\ ~panicked
    /\ Len(LastCalls) = 2
    /\ CountOp(LastCalls, "set_pipeline") = 0

\* The phase of the pipeline bound last before call i of calls ("none" when
\* no pipeline was bound yet).
RECURSIVE PhaseAt(_, _)
PhaseAt(calls, i) ==
    IF i = 0 THEN "none"
    ELSE IF calls[i].op = "set_pipeline" THEN calls[i].mask
    ELSE PhaseAt(calls, i - 1)

\* The draw calls of calls made with a pipeline of phase ms.
DrawsInPhase(calls, ms) ==
    {i \in 1..Len(calls) : calls[i].op = "draw_indexed" /\ PhaseAt(calls, i) = ms}

\* The draw calls of calls made with a pipeline of the given table and phase.
RECURSIVE TableAt(_, _)
TableAt(calls, i) ==
    IF i = 0 THEN "none"
    ELSE IF calls[i].op = "set_pipeline" THEN calls[i].table
    ELSE TableAt(calls, i - 1)

\* The scenario's sequence has been handled to its end.
ScenarioDone == last_cmd.op = "pop_mask"

\* C11 as claimed: the scenario yields one draw in the mask-stencil phase,
\* two in the masked-content phase (the content shape and the bitmap), none
\* in the mask-clear phase, and ends in NoMask at depth 0.
C11_Original ==
    ScenarioDone =>
        /\ Cardinality(DrawsInPhase(render_pass, "DrawMaskStencil")) = 1
        /\ Cardinality(DrawsInPhase(render_pass, "DrawMaskedContent")) = 2
        /\ Cardinality(DrawsInPhase(render_pass, "ClearMaskStencil")) = 0
        /\ mask_state = "NoMask"
        /\ num_masks = u32(0)

\* C11, amended: the scenario yields one draw in the mask-stencil phase (the
\* mask shape), one in the masked-content phase (the content shape) and one
\* in the mask-clear phase (the bitmap, with the bitmap pipeline of
\* ClearMaskStencil, as it follows DeactivateMask), three draws in all, and
\* ends without a panic in NoMask at depth 0.
C11_ScenarioDraws ==
    ScenarioDone =>
        /\ ~panicked
        /\ Cardinality(DrawsInPhase(render_pass, "DrawMaskStencil")) = 1
        /\ Cardinality(DrawsInPhase(render_pass, "DrawMaskedContent")) = 1
        /\ Cardinality(DrawsInPhase(render_pass, "ClearMaskStencil")) = 1
        /\ CountOp(render_pass, "draw_indexed") = 3
        /\ \A i \in DrawsInPhase(render_pass, "ClearMaskStencil") :
              TableAt(render_pass, i) = "bitmap" /\ render_pass[i].count = 6
        /\ mask_state = "NoMask"
        /\ num_masks = u32(0)

\* C11 witness: the scenario has ended, its last draw being the bitmap's.
C11_Witness ==
    /\ ScenarioDone
    /\ mask_state = "NoMask"
    /\ render_pass # <<>>
    /\ render_pass[Len(render_pass)] = DrawIndexed(6)
    /\ CountOp(render_pass, "draw_indexed") = 3

\* The calls of calls with the given op, in order.
CallsOf(calls, op) == SelectSeq(calls, LAMBDA c : c.op = op)

\* The sub-draws of a mesh with a non-zero applicable index count in the
\* phase of the state, in mesh order.
Drawn(mesh) == SelectSeq(mesh, LAMBDA d : ApplicableNow(d) # 0)

\* C12: the k-th draw call of a RenderShape draws the index range starting
\* at 0 of the k-th drawn sub-draw: up to its num_mask_indices in
\* DrawMaskStencil and ClearMaskStencil, up to its num_indices in NoMask and
\* DrawMaskedContent.
C12_Step ==
    last_cmd'.op = "render_shape" =>
        LET draws == CallsOf(NewCalls, "draw_indexed")
        IN  \A k \in 1..Len(draws) :
               LET mesh == meshes[last_cmd'.shape + 1]
               IN  /\ k <= Len(Drawn(mesh))
                   /\ draws[k].first = 0
                   /\ draws[k].count =
                         (IF mask_state \in {"DrawMaskStencil", "ClearMaskStencil"}
                          THEN Drawn(mesh)[k].num_mask_indices
                          ELSE Drawn(mesh)[k].num_indices)

C12_IndexRangeByPhase == [][C12_Step]_vars

\* C12 witness: the shape of a gradient fill, a bitmap fill and a stroke was
\* rendered while a mask stencil was cleared: two draw calls, of the mask
\* index counts 3 and 9, the stroke left out.
C12_Witness ==
    /\ last_cmd.op = "render_shape"
    /\ last_cmd.shape = 3
    /\ mask_state = "ClearMaskStencil"
    /\ ~panicked
    /\ CallsOf(LastCalls, "draw_indexed") = <<DrawIndexed(3), DrawIndexed(9)>>

\* The pipeline table of a sub-draw's kind.
TableOfKind(kind) ==
    CASE kind = "Color" -> "color"
      [] kind = "Gradient" -> "gradient"
      [] kind = "Bitmap" -> "bitmap"

\* C13: every pipeline a draw command binds on the main pass is the table
\* entry for the top of the blend stack and the mask phase of the state the
\* command is handled in; RenderBitmap binds from the bitmap table, DrawRect
\* from the color table, and the k-th pipeline of a RenderShape comes from
\* the table of the k-th drawn sub-draw's kind.
C13_Step ==
    LET pipes == CallsOf(NewCalls, "set_pipeline")
    IN  \A k \in 1..Len(pipes) :
           /\ blend_modes # <<>>
           /\ pipes[k].blend = blend_modes[Len(blend_modes)]
           /\ pipes[k].mask = mask_state
           /\ last_cmd'.op \in {"render_bitmap", "render_shape", "draw_rect"}
           /\ last_cmd'.op = "render_bitmap" => pipes[k].table = "bitmap"
           /\ last_cmd'.op = "draw_rect" => pipes[k].table = "color"
           /\ last_cmd'.op = "render_shape" =>
                 LET mesh == meshes[last_cmd'.shape + 1]
                 IN  /\ k <= Len(Drawn(mesh))
                     /\ pipes[k].table = TableOfKind(Drawn(mesh)[k].draw_type.kind)

C13_PipelineFromTable == [][C13_Step]_vars

\* C13 witness: with Multiply pushed, the shape of three sub-draws was
\* rendered without a mask and bound the gradient, bitmap and color
\* pipelines of (Multiply, NoMask), in that order.
C13_Witness ==
    /\ last_cmd.op = "render_shape"
    /\ mask_state = "NoMask"
    /\ CallsOf(LastCalls, "set_pipeline") =
          <<SetPipeline("gradient", "Multiply", "NoMask"),
            SetPipeline("bitmap", "Multiply", "NoMask"),
            SetPipeline("color", "Multiply", "NoMask")>>

\* The place of a call in the order pipeline, frame globals (slot 0),
\* transform uniforms (slot 1), material (slot 2), sampler (slot 3), vertex
\* buffer, index buffer, stencil reference, draw.
Rank(c) ==
    CASE c.op = "set_pipeline" -> 1
      [] c.op = "set_bind_group" /\ c.slot = 0 -> 2
      [] c.op = "write_uniforms" -> 3
      [] c.op = "set_bind_group" /\ c.slot = 2 -> 4
      [] c.op = "set_bind_group" /\ c.slot = 3 -> 5
      [] c.op = "set_vertex_buffer" -> 6
      [] c.op = "set_index_buffer" -> 7
      [] c.op = "set_stencil_reference" -> 8
      [] c.op = "draw_indexed" -> 9

\* From call lo on, the calls leading to each draw call follow the order of
\* Rank: the rank rises from every call that is not a draw to the next.
Ordered(calls, lo) ==
    \A i \in lo..(Len(calls) - 1) :
       calls[i].op # "draw_indexed" => Rank(calls[i]) < Rank(calls[i + 1])

\* From call lo on, every draw call directly follows a vertex buffer bind,
\* an index buffer bind and, when there is one, a stencil reference, and
\* is followed by nothing or by the pipeline bind of the next draw.
DrawTail(calls, lo) ==
    \A i \in lo..Len(calls) :
       calls[i].op = "draw_indexed" =>
          LET j == IF i > lo /\ calls[i - 1].op = "set_stencil_reference"
                   THEN i - 1 ELSE i
          IN  /\ j - 2 >= lo
              /\ calls[j - 1].op = "set_index_buffer"
              /\ calls[j - 2].op = "set_vertex_buffer"
              /\ i < Len(calls) => calls[i + 1].op = "set_pipeline"

\* C14 as claimed: in every RenderBitmap, RenderShape and DrawRect the
\* calls leading to each draw come in the order pipeline, slot 0, uniforms,
\* material, sampler, buffers, stencil reference, draw.
C14_Original ==
    [][last_cmd'.op \in DrawOps => Ordered(NewCalls, 1)]_vars

\* C14, amended: RenderBitmap and DrawRect record pipeline, slot-0 bind,
\* uniform write to slot 1, then material and sampler (RenderBitmap), vertex
\* and index buffer, stencil reference, draw, in this order. RenderShape
\* records the slot-0 bind and the uniform write first, once and before any
\* pipeline bind, and then for each drawn sub-draw: pipeline, material,
\* sampler, vertex and index buffer, stencil reference, draw.
C14_Step ==
    /\ (last_cmd'.op \in {"render_bitmap", "draw_rect"} /\ NewCalls # <<>>) =>
          /\ Ordered(NewCalls, 1)
          /\ DrawTail(NewCalls, 1)
          /\ Len(NewCalls) >= 3
          /\ Rank(NewCalls[1]) = 1
          /\ Rank(NewCalls[2]) = 2
          /\ Rank(NewCalls[3]) = 3 /\ NewCalls[3].slot = 1
    /\ (last_cmd'.op = "render_shape" /\ NewCalls # <<>>) =>
          /\ Len(NewCalls) >= 2
          /\ Rank(NewCalls[1]) = 2
          /\ Rank(NewCalls[2]) = 3 /\ NewCalls[2].slot = 1
          /\ Len(NewCalls) > 2 => Rank(NewCalls[3]) = 1
          /\ Ordered(NewCalls, 3)
          /\ DrawTail(NewCalls, 3)
          /\ \A i \in 3..Len(NewCalls) : Rank(NewCalls[i]) \notin {2, 3}

C14_CallOrder == [][C14_Step]_vars

\* C14 witness: the shape of three sub-draws was rendered as masked
\* content: the slot-0 bind and the uniform write come first, the first
\* pipeline bind third, and two further pipeline binds follow draw calls.
C14_Witness ==
    /\ last_cmd.op = "render_shape"
    /\ mask_state = "DrawMaskedContent"
    /\ ~panicked
    /\ Len(LastCalls) > 3
    /\ LastCalls[1] = SetBindGroup(0, <<"globals">>)
    /\ LastCalls[2].op = "write_uniforms"
    /\ LastCalls[3].op = "set_pipeline"
    /\ CountOp(LastCalls, "set_pipeline") = 3

\* The uniform writes and draw calls of calls, in order.
WritesAndDraws(calls) ==
    SelectSeq(calls, LAMBDA c : c.op \in {"write_uniforms", "draw_indexed"})

\* Uniform writes and draw calls take turns in calls, a write first and a
\* draw last.
Alternate(calls) ==
    LET wd == WritesAndDraws(calls)
    IN  /\ Len(wd) % 2 = 0
        /\ \A i \in 1..Len(wd) :
              wd[i].op = (IF i % 2 = 1 THEN "write_uniforms" ELSE "draw_indexed")

\* C15 as claimed: every uniform write targets slot 1, and on the main
\* render pass uniform writes and draw calls alternate one-to-one.
C15_Original ==
    ~panicked =>
        /\ \A i \in 1..Len(render_pass) :
              render_pass[i].op = "write_uniforms" => render_pass[i].slot = 1
        /\ Alternate(render_pass)

\* C15, amended: every uniform write targets slot 1. A RenderBitmap of a
\* registered handle and a DrawRect record one write followed by one draw
\* call. A RenderShape records one write, ahead of all its draw calls, of
\* which there are as many as drawn sub-draws: none, one or several, so a
\* write can be left without a draw and several draws can read one write.
\* No other command writes uniforms or draws on the main pass.
C15_Step ==
    LET wd == WritesAndDraws(NewCalls)
    IN  /\ \A i \in 1..Len(NewCalls) :
              NewCalls[i].op = "write_uniforms" => NewCalls[i].slot = 1
        /\ \A i \in 1..Len(copy_pass') :
              copy_pass'[i].op = "write_uniforms" => copy_pass'[i].slot = 1
        /\ \A i \in 1..Len(wd) :
              wd[i].op = (IF i = 1 THEN "write_uniforms" ELSE "draw_indexed")
        /\ wd # <<>> => last_cmd'.op \in DrawOps
        /\ (last_cmd'.op \in {"render_bitmap", "draw_rect"} /\ ~panicked'
               /\ NewCalls # <<>>) => Len(wd) = 2
        /\ (last_cmd'.op = "render_shape" /\ ~panicked') =>
              Len(wd) = 1 + Len(Drawn(meshes[last_cmd'.shape + 1]))

C15_OneWritePerCommand == [][C15_Step]_vars

\* C15 witness: one RenderShape left one uniform write to slot 1 that
\* three draw calls read.
C15_Witness ==
    /\ last_cmd.op = "render_shape"
    /\ ~panicked
    /\ CountOp(LastCalls, "write_uniforms") = 1
    /\ CountOp(LastCalls, "draw_indexed") = 3
    /\ LastCalls[2].op = "write_uniforms" /\ LastCalls[2].slot = 1

\* The fraction f equals channel / 255.
IsChannelOver255(f, channel) == f.den # 0 /\ f.num * 255 = channel * f.den

\* C16: the uniform write of a DrawRect with color (r, g, b, a) carries the
\* multiplicative color (r/255, g/255, b/255, a/255) and the additive color
\* (0, 0, 0, 0).
C16_Step ==
    last_cmd'.op = "draw_rect" =>
        /\ ~panicked' => CountOp(NewCalls, "write_uniforms") = 1
        /\ \A i \in 1..Len(NewCalls) :
              NewCalls[i].op = "write_uniforms" =>
                 LET adj == NewCalls[i].color_adjustments
                     color == last_cmd'.color
                 IN  /\ Len(adj.mult_color) = 4
                     /\ IsChannelOver255(adj.mult_color[1], color.r)
                     /\ IsChannelOver255(adj.mult_color[2], color.g)
                     /\ IsChannelOver255(adj.mult_color[3], color.b)
                     /\ IsChannelOver255(adj.mult_color[4], color.a)
                     /\ adj.add_color = <<0, 0, 0, 0>>

C16_RectColor == [][C16_Step]_vars

\* C16 witness: a DrawRect with color (255, 0, 0, 128) wrote the
\* multiplicative color (1, 0, 0, 128/255).
C16_Witness ==
    /\ last_cmd.op = "draw_rect"
    /\ last_cmd.color = Color(255, 0, 0, 128)
    /\ ~panicked
    /\ \E i \in 1..Len(LastCalls) :
          /\ LastCalls[i].op = "write_uniforms"
          /\ LET m == LastCalls[i].color_adjustments.mult_color
             IN  /\ m[1].num = m[1].den
                 /\ m[2].num = 0 /\ m[3].num = 0
                 /\ m[4].num * 255 = 128 * m[4].den

\* C17: swap_srgb leaves the mask phase, the mask depth and the blend stack
\* as they are, records nothing on the main render pass, does not panic,
\* and issues one draw call, of 6 indices from 0, on a pass of its own.
C17_Step ==
    last_cmd'.op = "swap_srgb" =>
        /\ mask_state' = mask_state
        /\ num_masks' = num_masks
        /\ blend_modes' = blend_modes
        /\ render_pass' = render_pass
        /\ ~panicked'
        /\ CountOp(copy_pass', "draw_indexed") = 1
        /\ copy_pass'[Len(copy_pass')].op = "draw_indexed"
        /\ copy_pass'[Len(copy_pass')].first = 0
        /\ copy_pass'[Len(copy_pass')].count = 6

C17_SwapSrgbKeepsFrame == [][C17_Step]_vars

\* C17 witness: swap_srgb ran inside a mask being drawn, with a blend mode
\* pushed, and left both as they were.
C17_Witness ==
    /\ last_cmd.op = "swap_srgb"
    /\ mask_state = "DrawMaskStencil"
    /\ blend_modes = <<"Normal", "Multiply">>
    /\ CountOp(copy_pass, "draw_indexed") = 1
    /\ render_pass = <<>>

\* C18: draw commands change neither the mask phase, the mask depth nor the
\* blend stack; mask commands leave the blend stack alone and record no GPU
\* call; blend commands leave the mask phase and depth alone and record no
\* GPU call.
C18_Step ==
    /\ last_cmd'.op \in DrawOps =>
          /\ mask_state' = mask_state
          /\ num_masks' = num_masks
          /\ blend_modes' = blend_modes
    /\ last_cmd'.op \in MaskOps =>
          /\ blend_modes' = blend_modes
          /\ passes' = passes
    /\ last_cmd'.op \in {"push_blend_mode", "pop_blend_mode"} =>
          /\ mask_state' = mask_state
          /\ num_masks' = num_masks
          /\ passes' = passes

C18_CommandsKeepApart == [][C18_Step]_vars

\* C18 witness: inside an activated mask and with a blend mode pushed, a
\* draw command recorded calls and left the phase, the depth and the stack.
C18_Witness ==
    /\ last_cmd.op \in DrawOps
    /\ LastCalls # <<>>
    /\ mask_state = "DrawMaskedContent"
    /\ num_masks = u32(1)
    /\ blend_modes = <<"Normal", "Multiply">>
    /\ last_mask_cmd = "activate"

\* The buffers of the calls with the given op, in order.
BuffersOf(calls, op) ==
    [k \in 1..Len(CallsOf(calls, op)) |-> CallsOf(calls, op)[k].buffer]

\* C19: a RenderBitmap of a registered handle and a DrawRect that complete
\* record one uniform write and one draw call of 6 indices each; a
\* RenderShape that completes records one slot-0 bind and one uniform
\* write however many sub-draws its mesh has, and one draw call for each
\* sub-draw with a non-zero applicable index count, in mesh order.
C19_Step ==
    /\ (/\ last_cmd'.op = "render_bitmap"
        /\ last_cmd'.bitmap \in DOMAIN bitmap_registry
        /\ ~panicked') =>
          /\ CountOp(NewCalls, "write_uniforms") = 1
          /\ CallsOf(NewCalls, "draw_indexed") = <<DrawIndexed(6)>>
    /\ (last_cmd'.op = "draw_rect" /\ ~panicked') =>
          /\ CountOp(NewCalls, "write_uniforms") = 1
          /\ CallsOf(NewCalls, "draw_indexed") = <<DrawIndexed(6)>>
    /\ (last_cmd'.op = "render_shape" /\ ~panicked') =>
          LET mesh == meshes[last_cmd'.shape + 1]
          IN  /\ Cardinality({i \in 1..Len(NewCalls) :
                     NewCalls[i].op = "set_bind_group" /\ NewCalls[i].slot = 0}) = 1
              /\ CountOp(NewCalls, "write_uniforms") = 1
              /\ CountOp(NewCalls, "draw_indexed") = Len(Drawn(mesh))
              /\ BuffersOf(NewCalls, "set_vertex_buffer") =
                    [k \in 1..Len(Drawn(mesh)) |-> Drawn(mesh)[k].vertex_buffer]
              /\ BuffersOf(NewCalls, "set_index_buffer") =
                    [k \in 1..Len(Drawn(mesh)) |-> Drawn(mesh)[k].index_buffer]

C19_EmissionCounts == [][C19_Step]_vars

\* C19 witness: the shape of a gradient fill, a bitmap fill and a stroke
\* was rendered without a mask: one slot-0 bind, one uniform write and three
\* draw calls, on the buffers of the three sub-draws in mesh order.
C19_Witness ==
    /\ last_cmd.op = "render_shape"
    /\ last_cmd.shape = 3
    /\ mask_state = "NoMask"
    /\ ~panicked
    /\ CountOp(LastCalls, "write_uniforms") = 1
    /\ BuffersOf(LastCalls, "set_vertex_buffer") =
          <<meshes[4][1].vertex_buffer, meshes[4][2].vertex_buffer,
            meshes[4][3].vertex_buffer>>

\* The stencil reference a draw call gets in phase ms at depth n (no call
\* in NoMask).
RefOf(ms, n) == set_stencil_reference(ms, n, debug_assertions).calls

\* C20: while every debug_assert! condition holds, each stencil reference
\* lies between 0 and the mask depth; it is the nesting level less one
\* while the stencil of a mask is drawn and the nesting level for masked
\* content and for clearing, the nesting level being the number of PushMask
\* commands still open. So a PushMask inside masked content keeps the
\* reference (the nested stencil uses the reference of the enclosing
\* content), and the PopMask that ends the nested mask brings back the
\* reference of the enclosing level, the same as before the nested PushMask.
C20_Step ==
    asserts_ok' =>
        /\ \A i \in 1..Len(NewCalls) :
              NewCalls[i].op = "set_stencil_reference" =>
                 /\ U32Val(NewCalls[i].ref) \in 0..U32Val(num_masks)
                 /\ mask_state = "DrawMaskStencil" =>
                       U32Val(NewCalls[i].ref) = open_masks - 1
                 /\ mask_state \in {"DrawMaskedContent", "ClearMaskStencil"} =>
                       U32Val(NewCalls[i].ref) = open_masks
        /\ (last_cmd'.op = "push_mask" /\ mask_state = "DrawMaskedContent") =>
              /\ RefOf(mask_state, num_masks) = <<SetStencilReference(u32(open_masks))>>
              /\ RefOf(mask_state', num_masks') = RefOf(mask_state, num_masks)
        /\ (last_cmd'.op = "pop_mask" /\ mask_state' = "DrawMaskedContent") =>
              /\ open_masks' = open_masks - 1
              /\ RefOf(mask_state', num_masks') = <<SetStencilReference(u32(open_masks'))>>

C20_NestedStencilReferences == [][C20_Step]_vars

\* C20 witness: a mask nested inside masked content was pushed, drawn,
\* cleared and popped, and the next draw into the enclosing content got
\* the reference 1 of its level again.
C20_Witness ==
    /\ asserts_ok /\ ~panicked
    /\ last_cmd.op \in DrawOps
    /\ last_mask_cmd = "pop"
    /\ mask_state = "DrawMaskedContent"
    /\ open_masks = 1
    /\ CallsOf(LastCalls, "set_stencil_reference") # <<>>
    /\ \A i \in 1..Len(LastCalls) :
          LastCalls[i].op = "set_stencil_reference" => LastCalls[i].ref = u32(1)

====
